---- MODULE Spec2Model ----
(***************************************************************************)
(* Model of the ILI9488 display driver (src/ili9488.py): the pixel         *)
(* encoding, image(), scroll() and the draw calls inherited from the       *)
(* DisplaySPI base class, over a recording SPI bus.                        *)
(***************************************************************************)
EXTENDS Integers, Sequences, FiniteSets

VARIABLES
    numpy,      \* module global: TRUE when "import numpy" succeeded, FALSE when it is None
    width,      \* self.width
    height,     \* self.height
    rotation,   \* self.rotation
    _scroll,    \* self._scroll
    img,        \* the PIL image the caller holds (sample.py opens it once)
    op,         \* name of the most recent call
    args,       \* its arguments
    err,        \* the exception it raised, "none" when it returned
    ret,        \* its return value: <<>> for None, <<v>> for a value
    blk,        \* the _block() invocations it made: <<>> or <<[x0, y0, x1, y1, data]>>
    bus,        \* the bus writes it made, in order: <<[cmd, data], ...>>
    reg37       \* the payload last written to register 0x37: <<>> before the first write

vars == <<numpy, width, height, rotation, _scroll, img, op, args, err, ret, blk, bus, reg37>>

\* the fields of the driver object and the module global
driver == <<numpy, width, height, rotation, _scroll>>

-----------------------------------------------------------------------------
(* Bounds of the model *)

\* panel size given to the constructor
PanelW == 1
PanelH == 2
\* image buffers are 1..MaxImg pixels wide and high
MaxImg == 2
\* image()/pixel() offsets range over -1..MaxOff
MaxOff == 1
\* scroll deltas range over -MaxDy..MaxDy (plus the deltas of DyExtra)
MaxDy == 4

-----------------------------------------------------------------------------
(* Integer bit operations of Python on non-negative operands *)

RECURSIVE BitAnd(_, _)
BitAnd(a, b) ==
    IF a = 0 \/ b = 0 THEN 0
    ELSE 2 * BitAnd(a \div 2, b \div 2) + (IF a % 2 = 1 /\ b % 2 = 1 THEN 1 ELSE 0)

RECURSIVE BitOr(_, _)
BitOr(a, b) ==
    IF a = 0 THEN b
    ELSE IF b = 0 THEN a
    ELSE 2 * BitOr(a \div 2, b \div 2) + (IF a % 2 = 1 \/ b % 2 = 1 THEN 1 ELSE 0)

RECURSIVE Pow2(_)
Pow2(n) == IF n = 0 THEN 1 ELSE 2 * Pow2(n - 1)

Shr(a, n) == a \div Pow2(n)
Shl(a, n) == a * Pow2(n)

\* struct.pack(">H", v): two bytes, most significant first
PackH(v) == <<v \div 256, v % 256>>

\* struct.pack(_ENCODE_POS, a, b) with _ENCODE_POS = ">HH"; an "H" field takes 0..65535
PosOk(v) == 0 <= v /\ v <= 65535
encode_pos(a, b) == PackH(a) \o PackH(b)

-----------------------------------------------------------------------------
(* Pixel encoding *)

\* the expansion of one channel: ((bits) * 255) // max
ScaleWrongDivisor(bits, max) == (bits * 255) \div (max + 1)
Scale(bits, max) == (bits * 255) \div max

RedBits(color)   == Shr(BitAnd(color, 63488), 11)
GreenBits(color) == Shr(BitAnd(color, 2016), 5)
BlueBits(color)  == BitAnd(color, 31)

\* the channels sent blue first
encode_pixel_bgr(color) ==
    <<Scale(BlueBits(color), 31), Scale(GreenBits(color), 63), Scale(RedBits(color), 31)>>

\* ILI9488._encode_pixel: struct.pack(">BBB", r, g, b)
encode_pixel(color) ==
    <<Scale(RedBits(color), 31), Scale(GreenBits(color), 63), Scale(BlueBits(color), 31)>>

\* adafruit_rgb_display.rgb.color565 on three channels
color565(r, g, b) ==
    BitOr(BitOr(Shl(BitAnd(r, 248), 8), Shl(BitAnd(g, 252), 3)), Shr(b, 3))

-----------------------------------------------------------------------------
(* Registers *)

_COLUMN_SET == 42
_PAGE_SET   == 43
_RAM_WRITE  == 44
\* the vertical scroll register written by scroll()
SCROLL_REG  == 55

-----------------------------------------------------------------------------
(* Images: mode, size and the pixels in row-major order, as PIL holds them *)

Palette ==
    << <<255, 0, 0>>, <<7, 3, 7>>, <<8, 4, 8>>, <<200, 100, 50>>, <<0, 255, 0>>,
       <<123, 45, 67>>, <<0, 0, 255>>, <<255, 255, 255>>, <<1, 2, 3>> >>

PaletteAt(k) == Palette[((k - 1) % Len(Palette)) + 1]

\* the k-th pixel of a test image: 3 channels in RGB, 4 in RGBA, 1 in L
PixelOf(mode, k) ==
    IF mode = "RGB" THEN PaletteAt(k)
    ELSE IF mode = "RGBA" THEN Append(PaletteAt(k), 255 - k)
    ELSE <<PaletteAt(k)[1]>>

\* the modes image() accepts
ValidModes == {"RGB", "RGBA"}

MkImage(mode, w, h) ==
    [mode |-> mode, w |-> w, h |-> h, px |-> [k \in 1..(w * h) |-> PixelOf(mode, k)]]

Images ==
    {MkImage(m, w, h) : m \in ValidModes, w \in 1..MaxImg, h \in 1..MaxImg}
        \cup {MkImage("L", 1, 1)}

\* img.getpixel((i, j))
getpixel(im, i, j) == im.px[j * im.w + i + 1]

\* img.rotate(angle, expand=True) for a multiple of 90 degrees: PIL turns the image
\* counter-clockwise, and a quarter turn swaps width and height
rotate(im, angle) ==
    IF angle = 90 THEN
        [mode |-> im.mode, w |-> im.h, h |-> im.w,
         px |-> [k \in 1..(im.w * im.h) |->
                   getpixel(im, im.w - 1 - ((k - 1) \div im.h), (k - 1) % im.h)]]
    ELSE IF angle = 180 THEN
        [mode |-> im.mode, w |-> im.w, h |-> im.h,
         px |-> [k \in 1..(im.w * im.h) |->
                   getpixel(im, im.w - 1 - ((k - 1) % im.w), im.h - 1 - ((k - 1) \div im.w))]]
    ELSE IF angle = 270 THEN
        [mode |-> im.mode, w |-> im.h, h |-> im.w,
         px |-> [k \in 1..(im.w * im.h) |->
                   getpixel(im, (k - 1) \div im.h, im.h - 1 - ((k - 1) % im.h))]]
    ELSE im

-----------------------------------------------------------------------------
(* The two pixel conversions of image() *)

\* one pixel of the numpy path: convert("RGB") keeps the first three channels,
\* then ((c >> 3) * 255) // 31, ((c >> 2) * 255) // 63, ((c >> 3) * 255) // 31
numpy_triple(p) ==
    <<Scale(Shr(p[1], 3), 31), Scale(Shr(p[2], 2), 63), Scale(Shr(p[3], 3), 31)>>

\* bytes(data.flatten().astype("uint8")) of the (h, w, 3) array
numpy_pixels(im) ==
    [n \in 1..(3 * im.w * im.h) |-> numpy_triple(im.px[((n - 1) \div 3) + 1])[((n - 1) % 3) + 1]]

\* color565(t) called with one tuple: "r, g, b = t" needs exactly three values
unpack3_ok(p) == Len(p) = 3

\* the position in the byte array that the loop writes pixel (i, j) to
loop_index(i, j, imwidth, imheight) == 3 * (j * imwidth + i)

\* the three assignments of one loop iteration
loop_store(pixels, im, i, j) ==
    LET pix  == color565(getpixel(im, i, j)[1], getpixel(im, i, j)[2], getpixel(im, i, j)[3])
        base == loop_index(i, j, im.w, im.h)
    IN [pixels EXCEPT ![base + 1] = Scale(RedBits(pix), 31),
                      ![base + 2] = Scale(GreenBits(pix), 63),
                      ![base + 3] = Scale(BlueBits(pix), 31)]

\* for i in range(imwidth): for j in range(imheight): ..., from iteration t on
RECURSIVE loop_from(_, _, _)
loop_from(pixels, im, t) ==
    IF t >= im.w * im.h THEN pixels
    ELSE loop_from(loop_store(pixels, im, t \div im.h, t % im.h), im, t + 1)

\* pixels = bytearray(imwidth * imheight * 3), then the loops
loop_pixels(im) == loop_from([n \in 1..(3 * im.w * im.h) |-> 0], im, 0)

\* whether the loops raise: the first color565() call fails on a 4-tuple
loop_raises(im) == \E k \in 1..(im.w * im.h) : ~unpack3_ok(im.px[k])

-----------------------------------------------------------------------------
(* DisplaySPI._block with data: COLUMN_SET, PAGE_SET, then RAM_WRITE and the data *)

Wr(cmd, data) == [cmd |-> cmd, data |-> data]

block(x0, y0, x1, y1, data) ==
    IF ~(PosOk(x0) /\ PosOk(x1)) THEN
        [err |-> "struct.error", bus |-> <<>>]
    ELSE IF ~(PosOk(y0) /\ PosOk(y1)) THEN
        [err |-> "struct.error", bus |-> <<Wr(_COLUMN_SET, encode_pos(x0, x1))>>]
    ELSE
        [err |-> "none",
         bus |-> <<Wr(_COLUMN_SET, encode_pos(x0, x1)),
                   Wr(_PAGE_SET, encode_pos(y0, y1)),
                   Wr(_RAM_WRITE, data)>>]

Blk(x0, y0, x1, y1, data) == [x0 |-> x0, y0 |-> y0, x1 |-> x1, y1 |-> y1, data |-> data]

\* the outcome of a call that reaches _block
via_block(x0, y0, x1, y1, data) ==
    LET b == block(x0, y0, x1, y1, data)
    IN [err |-> b.err, blk |-> <<Blk(x0, y0, x1, y1, data)>>, bus |-> b.bus]

raised(e) == [err |-> e, blk |-> <<>>, bus |-> <<>>]

-----------------------------------------------------------------------------
(* ILI9488.image *)

ValidRotations == {0, 90, 180, 270}

\* rotation argument: <<>> is None
effective_rotation(rot, selfrot) == IF rot = <<>> THEN selfrot ELSE rot[1]

mode_ok(im) == im.mode \in ValidModes

rotation_ok(r) == r \in ValidRotations

rotated_skipped(im, r) == im
rotated(im, r) == IF r # 0 THEN rotate(im, r) ELSE im

exceeds_width_only(im, x, y, w, h) == x + im.w > w
exceeds(im, x, y, w, h) == x + im.w > w \/ y + im.h > h

window_of(im, x, y) == <<x, y, x + im.w - 1, y + im.h - 1>>

\* lines 158-173 on the rotated image, with the numpy path (np) or the loops
convert_and_block(np, im, x, y) ==
    LET win == window_of(im, x, y) IN
    IF np THEN via_block(win[1], win[2], win[3], win[4], numpy_pixels(im))
    ELSE IF loop_raises(im) THEN raised("ValueError:unpack")
    ELSE via_block(win[1], win[2], win[3], win[4], loop_pixels(im))

image(np, im, rot, x, y, selfrot, w, h) ==
    LET r == effective_rotation(rot, selfrot) IN
    IF ~mode_ok(im) THEN raised("ValueError:mode")
    ELSE IF ~rotation_ok(r) THEN raised("ValueError:rotation")
    ELSE LET im2 == rotated(im, r) IN
         IF exceeds(im2, x, y, w, h) THEN raised("ValueError:bounds")
         ELSE convert_and_block(np, im2, x, y)

-----------------------------------------------------------------------------
(* The draw calls of the base class *)

\* n copies of the encoded pixel, as one byte sequence
repeat(triple, n) == [k \in 1..(3 * n) |-> triple[((k - 1) % 3) + 1]]

\* fill(color): the whole panel, width * height encoded pixels
fill(color, w, h) == via_block(0, 0, w - 1, h - 1, repeat(encode_pixel(color), w * h))

\* pixel(x, y, color): one pixel, or a range error
pixel(x, y, color, w, h) ==
    IF 0 <= x /\ x < w /\ 0 <= y /\ y < h
    THEN via_block(x, y, x, y, encode_pixel(color))
    ELSE raised("RangeError")

-----------------------------------------------------------------------------
(* ILI9488.scroll *)

scroll_sum_only(s, dy, h) == s + dy
\* the remainder with the sign of the dividend, as C computes it
scroll_trunc_rem(s, dy, h) == IF s + dy >= 0 THEN (s + dy) % h ELSE 0 - ((0 - (s + dy)) % h)
scroll_offset(s, dy, h) == (s + dy) % h

\* self.write(0x37, struct.pack(">H", self._scroll))
scroll_write(s) == <<Wr(SCROLL_REG, PackH(s))>>

-----------------------------------------------------------------------------
(* Inputs *)

DefaultWidth  == 320
DefaultHeight == 480

Offsets == -1..MaxOff
RotArgs == {<<>>, <<0>>, <<90>>, <<180>>, <<270>>, <<45>>}
SelfRotations == {0, 90}
DyExtra == {500, -30, 480, -480, -1000}
Dys == (-MaxDy..MaxDy) \cup DyExtra
Colors == {0, 33808}
SmallImages ==
    {MkImage("RGB", 1, MaxImg), MkImage("RGBA", MaxImg, 1), MkImage("L", 1, 1)}

-----------------------------------------------------------------------------
(* Actions: one per call *)

\* what a call leaves behind for observation
Observe(name, a, res, r) ==
    /\ op' = name
    /\ args' = a
    /\ err' = res.err
    /\ blk' = res.blk
    /\ bus' = res.bus
    /\ ret' = r

Scroll(dy) ==
    /\ _scroll' = scroll_offset(_scroll, dy, height)
    /\ Observe("scroll", [dy |-> <<dy>>],
               [err |-> "none", blk |-> <<>>, bus |-> scroll_write(_scroll')], <<>>)
    /\ reg37' = <<scroll_write(_scroll')[1].data>>
    /\ UNCHANGED <<numpy, width, height, rotation, img>>

\* dy = None treated as a delta of 0: the register is written again
ScrollQueryWrites ==
    /\ Observe("scroll", [dy |-> <<>>],
               [err |-> "none", blk |-> <<>>, bus |-> scroll_write(_scroll)], <<_scroll>>)
    /\ reg37' = <<scroll_write(_scroll)[1].data>>
    /\ UNCHANGED <<driver, img>>

ScrollQuery ==
    /\ Observe("scroll", [dy |-> <<>>], raised("none"), <<_scroll>>)
    /\ UNCHANGED <<driver, img, reg37>>

Image(rot, x, y) ==
    /\ Observe("image", [rot |-> rot, x |-> x, y |-> y],
               image(numpy, img, rot, x, y, rotation, width, height), <<>>)
    /\ UNCHANGED <<driver, img, reg37>>

Fill(color) ==
    /\ Observe("fill", [color |-> color], fill(color, width, height), <<>>)
    /\ UNCHANGED <<driver, img, reg37>>

Pixel(x, y, color) ==
    /\ Observe("pixel", [x |-> x, y |-> y, color |-> color],
               pixel(x, y, color, width, height), <<>>)
    /\ UNCHANGED <<driver, img, reg37>>

\* _encode_pixel applied to the colour drawn by InitEncode
EncodePixel ==
    /\ op = "init"
    /\ op' = "_encode_pixel"
    /\ ret' = <<encode_pixel(args.color)>>
    /\ UNCHANGED <<driver, img, args, err, blk, bus, reg37>>

-----------------------------------------------------------------------------
(* Specifications *)

\* the state after __init__: the scroll offset is 0 and nothing has been called
Constructed(w, h) ==
    /\ width = w
    /\ height = h
    /\ _scroll = 0
    /\ op = "init"
    /\ args = [none |-> <<>>]
    /\ err = "none"
    /\ ret = <<>>
    /\ blk = <<>>
    /\ bus = <<>>
    /\ reg37 = <<>>

\* every call, on a small panel
Init ==
    /\ numpy \in BOOLEAN
    /\ rotation \in SelfRotations
    /\ img \in SmallImages
    /\ Constructed(PanelW, PanelH)

Next ==
    \/ \E dy \in Dys : Scroll(dy)
    \/ ScrollQuery
    \/ \E rot \in RotArgs, x \in Offsets, y \in Offsets : Image(rot, x, y)
    \/ \E c \in Colors : Fill(c)
    \/ \E x \in Offsets, y \in Offsets, c \in Colors : Pixel(x, y, c)

Spec == Init /\ [][Next]_vars

\* scroll() alone, on a small panel and on the default 320 x 480 panel
InitScroll ==
    /\ numpy \in BOOLEAN
    /\ rotation = 0
    /\ img = MkImage("RGB", 1, 1)
    /\ \/ Constructed(PanelW, PanelH)
       \/ Constructed(DefaultWidth, DefaultHeight)

NextScroll ==
    \/ \E dy \in Dys : Scroll(dy)
    \/ ScrollQuery

SpecScroll == InitScroll /\ [][NextScroll]_vars

\* image() alone, on every test image
InitImage ==
    /\ numpy \in BOOLEAN
    /\ rotation \in SelfRotations
    /\ img \in Images
    /\ Constructed(PanelW, PanelH)

NextImage == \E rot \in RotArgs, x \in Offsets, y \in Offsets : Image(rot, x, y)

SpecImage == InitImage /\ [][NextImage]_vars

\* _encode_pixel on every 16-bit colour
InitEncode ==
    /\ numpy = FALSE
    /\ rotation = 0
    /\ img = MkImage("RGB", 1, 1)
    /\ width = PanelW
    /\ height = PanelH
    /\ _scroll = 0
    /\ op = "init"
    /\ args \in {[color |-> c] : c \in 0..65535}
    /\ err = "none"
    /\ ret = <<>>
    /\ blk = <<>>
    /\ bus = <<>>
    /\ reg37 = <<>>

NextEncode == EncodePixel

SpecEncode == InitEncode /\ [][NextEncode]_vars

-----------------------------------------------------------------------------
(* Properties *)

\* the call just made
IsEncode      == op = "_encode_pixel"
IsScrollBy    == op = "scroll" /\ args.dy # <<>>
IsScrollQuery == op = "scroll" /\ args.dy = <<>>
IsImage       == op = "image"

IsByte(v) == v \in 0..255

\* C1: for every 16-bit colour c, _encode_pixel(c) is three bytes, each in 0..255,
\* equal to (((c >> 11) & 31) * 255) div 31, (((c >> 5) & 63) * 255) div 63 and
\* ((c & 31) * 255) div 31; black, white and the three primaries map to the
\* expected triples.
C1_EncodePixel ==
    IsEncode =>
        LET c == args.color
            e == ret[1]
        IN /\ Len(e) = 3
           /\ \A k \in 1..3 : IsByte(e[k])
           /\ e[1] = (((c \div 2048) % 32) * 255) \div 31
           /\ e[2] = (((c \div 32) % 64) * 255) \div 63
           /\ e[3] = ((c % 32) * 255) \div 31
           /\ (c = 0 => e = <<0, 0, 0>>)
           /\ (c = 65535 => e = <<255, 255, 255>>)
           /\ (c = 63488 => e = <<255, 0, 0>>)
           /\ (c = 2016 => e = <<0, 255, 0>>)
           /\ (c = 31 => e = <<0, 0, 255>>)

C1_Witness == IsEncode /\ args.color = 63488 /\ ret = << <<255, 0, 0>> >>

\* C10: packing the bytes of _encode_pixel(c) with color565 gives c back, so no
\* neighbouring colour has the same encoding and encoding the packed bytes again
\* changes nothing; the other round trip, 8-bit channel -> RGB565 -> 8-bit, loses
\* information for some channel value.
C10_RightInverse ==
    IsEncode =>
        LET c == args.color
            e == ret[1]
            Near == {d \in {c - 2048, c - 32, c - 1, c + 1, c + 32, c + 2048} :
                        d >= 0 /\ d <= 65535}
        IN /\ color565(e[1], e[2], e[3]) = c
           /\ encode_pixel(color565(e[1], e[2], e[3])) = e
           /\ \A d \in Near : encode_pixel(d) # e
           /\ \E v \in 0..255 : encode_pixel(color565(v, v, v)) # <<v, v, v>>

C10_Witness ==
    /\ IsEncode
    /\ args.color = 33808
    /\ ret = << <<131, 129, 131>> >>
    /\ color565(131, 129, 131) = 33808
    /\ encode_pixel(color565(130, 130, 130)) # <<130, 130, 130>>

Abs(v) == IF v < 0 THEN 0 - v ELSE v

\* v is the non-negative residue of n modulo h
IsMod(v, n, h) == v \in 0..(h - 1) /\ \E q \in (0 - Abs(n))..Abs(n) : n = q * h + v

\* C2: scroll(dy) from offset p stores the non-negative residue of p + dy modulo
\* height, writes register 0x37 exactly once with that value as two big-endian
\* bytes, returns None, and a scroll(None) made next returns the new offset; with
\* height 480, 500 from 0 gives 20 and -30 from 20 gives 470.
C2_ScrollBy ==
    [][/\ IsScrollBy' =>
            /\ IsMod(_scroll', _scroll + args'.dy[1], height)
            /\ Len(bus') = 1
            /\ bus'[1].cmd = 55
            /\ Len(bus'[1].data) = 2
            /\ IsByte(bus'[1].data[1]) /\ IsByte(bus'[1].data[2])
            /\ bus'[1].data[1] * 256 + bus'[1].data[2] = _scroll'
            /\ ret' = <<>>
            /\ err' = "none"
            /\ (height = 480 /\ _scroll = 0 /\ args'.dy[1] = 500 => _scroll' = 20)
            /\ (height = 480 /\ _scroll = 20 /\ args'.dy[1] = -30 => _scroll' = 470)
       /\ (IsScrollBy /\ IsScrollQuery') => ret' = <<_scroll>>
      ]_vars

C2_Witness ==
    /\ IsScrollBy
    /\ height = 480
    /\ args.dy = <<-30>>
    /\ _scroll = 470
    /\ bus = <<[cmd |-> 55, data |-> <<1, 214>>]>>

\* the offset that the last write of register 0x37 carried, 0 before the first
LastWritten == IF reg37 = <<>> THEN 0 ELSE reg37[1][1] * 256 + reg37[1][2]

\* C3: scroll(None) writes nothing to the bus, changes neither the stored offset
\* nor any other driver state, and returns the offset of the most recent
\* scroll(dy), 0 when there was none; repeated queries return the same value.
C3_ScrollQuery ==
    [][IsScrollQuery' =>
            /\ bus' = <<>>
            /\ blk' = <<>>
            /\ err' = "none"
            /\ UNCHANGED <<driver, reg37>>
            /\ ret' = <<_scroll>>
            /\ ret' = <<LastWritten>>
            /\ (IsScrollQuery => ret' = ret)
      ]_vars

C3_Witness ==
    /\ IsScrollQuery
    /\ height = 480
    /\ ret = <<470>>
    /\ reg37 = << <<1, 214>> >>
    /\ bus = <<>>

\* the rotation image() works with
ArgRotation == IF args.rot = <<>> THEN rotation ELSE args.rot[1]

\* the size of the buffer after a turn by ArgRotation
TurnedW == IF ArgRotation \in {90, 270} THEN img.h ELSE img.w
TurnedH == IF ArgRotation \in {90, 270} THEN img.w ELSE img.h

\* the image() call just made fails input validation
Invalid ==
    \/ img.mode \notin {"RGB", "RGBA"}
    \/ ArgRotation \notin {0, 90, 180, 270}
    \/ args.x + TurnedW > width
    \/ args.y + TurnedH > height

ExpectedStream(im) ==
    [n \in 1..(3 * im.w * im.h) |->
        LET k == (n - 1) \div 3
            p == getpixel(im, k % im.w, k \div im.w)
        IN encode_pixel(color565(p[1], p[2], p[3]))[((n - 1) % 3) + 1]]

\* C5: every image() call that passes validation uses the window
\* (x, y, x + w - 1, y + h - 1) of the rotated buffer and streams exactly w * h
\* triples after RAM_WRITE, row-major, each the encoding of its pixel.
C5_ImageStream ==
    (IsImage /\ ~Invalid) =>
        LET im == rotated(img, ArgRotation)
        IN /\ Len(blk) = 1
           /\ <<blk[1].x0, blk[1].y0, blk[1].x1, blk[1].y1>>
                = <<args.x, args.y, args.x + im.w - 1, args.y + im.h - 1>>
           /\ Len(bus) = 3
           /\ bus[3].cmd = 44
           /\ Len(bus[3].data) = 3 * im.w * im.h
           /\ Len(bus[3].data) = 3 * (blk[1].x1 - blk[1].x0 + 1) * (blk[1].y1 - blk[1].y0 + 1)
           /\ bus[3].data = ExpectedStream(im)

C7_WindowInPanel ==
    \A k \in 1..Len(blk) :
        /\ 0 <= blk[k].x0 /\ blk[k].x0 <= blk[k].x1 /\ blk[k].x1 < width
        /\ 0 <= blk[k].y0 /\ blk[k].y0 <= blk[k].y1 /\ blk[k].y1 < height

\* C8: with effective rotation 90, given or taken from self.rotation, image() on
\* a W x H buffer checks the bounds on the turned size (H wide, W high) and hands
\* _block the window (x, y, x + H - 1, y + W - 1), which is what COLUMN_SET and
\* PAGE_SET then carry.
C8_QuarterTurnWindow ==
    (IsImage /\ ArgRotation = 90 /\ img.mode \in {"RGB", "RGBA"}) =>
        /\ err = "ValueError:bounds"
             <=> (args.x + img.h > width \/ args.y + img.w > height)
        /\ err = "none" => Len(blk) = 1
        /\ \A k \in 1..Len(blk) :
             <<blk[k].x0, blk[k].y0, blk[k].x1, blk[k].y1>>
               = <<args.x, args.y, args.x + img.h - 1, args.y + img.w - 1>>
        /\ Len(bus) = 3 =>
             /\ bus[1] = [cmd |-> 42, data |-> <<0, args.x, 0, args.x + img.h - 1>>]
             /\ bus[2] = [cmd |-> 43, data |-> <<0, args.y, 0, args.y + img.w - 1>>]

C8_Witness ==
    /\ IsImage
    /\ args.rot = <<>>
    /\ rotation = 90
    /\ img.w = 2 /\ img.h = 1
    /\ args.x = 0 /\ args.y = 0
    /\ err = "none"
    /\ Len(bus) = 3
    /\ bus[1].data = <<0, 0, 0, 0>>
    /\ bus[2].data = <<0, 0, 0, 1>>

\* C9: the stored scroll offset is 0 after construction, stays in 0..height-1
\* through every sequence of scroll, fill, pixel and image calls, and only
\* scroll(dy) changes it.
C9_ScrollInRange ==
    /\ [](op = "init" => _scroll = 0)
    /\ [](_scroll \in 0..(height - 1))
    /\ [][_scroll' # _scroll => IsScrollBy']_vars

C9_Witness ==
    /\ IsImage
    /\ err = "none"
    /\ _scroll = height - 1
    /\ reg37 # <<>>

====
